---- MODULE Spec2Model ----
(***************************************************************************)
(* A state-machine model of the thread pool of src/src/threadpool.cpp and  *)
(* src/include/threadpool.h: the pool's fields, the client calls           *)
(* (setters, start, submitTask, Result::get, the destructor) and the       *)
(* worker loop threadFunc, one action per atomic step of each thread.      *)
(*                                                                         *)
(* A thread's steps are cut wherever another thread can observe or change  *)
(* what the step reads: at every acquisition and release of taskQueMtx_,   *)
(* at every read of the atomic isPoolRunning_ and at every condition       *)
(* variable wait.  A condition variable is modelled by the program         *)
(* counters of the threads blocked in it: notify_all moves every one of    *)
(* them to a "woken" counter from which it must re-acquire the mutex.      *)
(***************************************************************************)
EXTENDS Integers, Sequences, FiniteSets, TLC

\* ------------------------------------------------------------------ bounds
MaxTasks == 3       \* submitTask calls made in one behaviour of Spec
LiveMaxTasks == 2   \* submitTask calls made in one behaviour of FairSpec
OtherThreads == 1   \* Thread objects created by another pool of the process

\* The values the owner passes to start, setTaskQueMaxThreshHold and
\* setThreadSizeThreshHold, and the threads that call submitTask.
InitSizes == {1, 2}
QueLimits == {1, 2}
Thresholds == {2}
Clients == {1, 2}
LiveInitSizes == {1}
LiveClients == {1}

\* ------------------------------------------------------- program constants
TASK_MAX_THRESHHOLD == 2147483647
THREAD_MAX_THRESHHOLD == 100

MODE_FIXED == "MODE_FIXED"
MODE_CACHED == "MODE_CACHED"
PoolMode == {MODE_FIXED, MODE_CACHED}

\* A std::atomic_uint holds a value modulo 2^32.  The model keeps the
\* integer of least absolute value congruent to it: -1 stands for 2^32 - 1,
\* the value that x-- leaves in a counter that was 0, and so on.  UintLeq
\* compares the unsigned values two such integers stand for.
AtomicUintDec(x) == x - 1
UintLeq(a, b) == IF (a < 0) = (b < 0) THEN a <= b ELSE b < 0

\* An Any that holds nothing (default-constructed or moved-from), the Any
\* built from "" that get() returns for an invalid Result, and the value
\* task o's run() returns: distinct tasks return distinct values.
NoAny == -1
EmptyStrAny == 0
RunValue(o) == 10 + o

\* Tasks (and the Result of each) are numbered in the order in which
\* submitTask settles them, by line 72 or by line 68: a smaller number was
\* accepted or rejected earlier.
Tasks == 1..MaxTasks
\* Every accepted submitTask creates at most one Thread, start creates
\* initThreadSize of them: no id beyond this range is ever handed out.
ThreadIds == 0..(2 + MaxTasks - 1)

\* Whoever holds taskQueMtx_.
NoOwner == <<"none", 0>>
WorkerT(w) == <<"worker", w>>
ClientT(c) == <<"client", c>>
OwnerT == <<"owner", 0>>

VARIABLES
    \* ThreadPool
    poolMode_, taskQueMaxThreshHold_, threadSizeThreshHold_, initThreadSize_,
    isPoolRunning_, taskQue_, taskSize_, idleThreadSize_, curThreadSize_,
    threads_, mtx,
    \* Thread::generateId_
    generateId_,
    \* a thread of the process that constructs the Thread objects of another
    \* pool: its position in Thread::Thread, the value it read from
    \* generateId_, the ids its Thread objects got
    otherPc, otherTmp, otherIds,
    \* Task::result_ and the Result objects (one per submitTask call)
    result_, handles, isValid_, resLimit_, any_,
    \* the thread that owns the pool: setters, start, ~ThreadPool
    mpc, mi,
    \* the threads calling submitTask
    cpc, ctask, nextTask,
    \* the workers running threadFunc
    wpc, wtask,
    \* history: the tasks whose run() has returned, the tasks in the queue
    \* at the moment the destructor cleared isPoolRunning_, the Results
    \* whose get() has returned and what it returned
    finished, discarded, getDone, gotVal

procVars == <<otherPc, otherTmp, otherIds>>
poolVars == <<isPoolRunning_, taskQue_, taskSize_, idleThreadSize_,
              curThreadSize_, threads_, mtx, generateId_, procVars>>
cfgVars == <<poolMode_, taskQueMaxThreshHold_, threadSizeThreshHold_,
             initThreadSize_>>
resVars == <<result_, handles, isValid_, resLimit_, any_>>
mainVars == <<mpc, mi>>
clientVars == <<cpc, ctask, nextTask>>
workerVars == <<wpc, wtask>>
histVars == <<finished, discarded, getDone, gotVal>>
vars == <<poolVars, cfgVars, resVars, mainVars, clientVars, workerVars,
          histVars>>

\* ------------------------------------------------------------ construction
Init ==
    /\ poolMode_ = MODE_FIXED
    /\ taskQueMaxThreshHold_ = TASK_MAX_THRESHHOLD
    /\ threadSizeThreshHold_ = THREAD_MAX_THRESHHOLD
    /\ initThreadSize_ = 0
    /\ isPoolRunning_ = FALSE
    /\ taskQue_ = <<>>
    /\ taskSize_ = 0
    /\ idleThreadSize_ = 0
    /\ curThreadSize_ = 0
    /\ threads_ = {}
    /\ mtx = NoOwner
    /\ generateId_ = 0
    /\ otherPc = "idle"
    /\ otherTmp = 0
    /\ otherIds = <<>>
    /\ result_ = [o \in Tasks |-> 0]
    /\ handles = {}
    /\ isValid_ = [h \in Tasks |-> TRUE]
    /\ resLimit_ = [h \in Tasks |-> 0]
    /\ any_ = [h \in Tasks |-> NoAny]
    /\ mpc = "setMode"
    /\ mi = 0
    /\ cpc = [c \in Clients |-> "idle"]
    /\ ctask = [c \in Clients |-> 0]
    /\ nextTask = 1
    /\ wpc = [w \in ThreadIds |-> "unborn"]
    /\ wtask = [w \in ThreadIds |-> 0]
    /\ finished = {}
    /\ discarded = {}
    /\ getDone = {}
    /\ gotVal = [h \in Tasks |-> NoAny]

\* ------------------------------------------------------------------ setters
\* A check that never finds the pool running.
chackRunningStateNever == FALSE

\* Lines 209-212.
chackRunningState == isPoolRunning_

\* The owner's program: setMode, setTaskQueMaxThreshHold,
\* setThreadSizeThreshHold, start, then any setter any number of times,
\* then the destructor.  A setter is called where the program has it and
\* while the pool runs.
SetterCall(at) ==
    /\ mpc \in {at, "running"}
    /\ mpc' = CASE mpc = "setMode" -> "setQue"
                [] mpc = "setQue" -> "setThr"
                [] mpc = "setThr" -> "start"
                [] OTHER -> mpc
    /\ UNCHANGED <<mi, initThreadSize_>>
    /\ UNCHANGED <<poolVars, resVars, clientVars, workerVars, histVars>>

\* Lines 49-53.
setMode(mode) ==
    /\ SetterCall("setMode")
    /\ poolMode_' = IF chackRunningState THEN poolMode_ ELSE mode
    /\ UNCHANGED <<taskQueMaxThreshHold_, threadSizeThreshHold_>>

\* Lines 32-36.
setTaskQueMaxThreshHold(threshhold) ==
    /\ SetterCall("setQue")
    /\ taskQueMaxThreshHold_' =
          IF chackRunningState THEN taskQueMaxThreshHold_ ELSE threshhold
    /\ UNCHANGED <<poolMode_, threadSizeThreshHold_>>

\* Lines 39-46.
setThreadSizeThreshHold(threshhold) ==
    /\ SetterCall("setThr")
    /\ threadSizeThreshHold_' =
          IF ~chackRunningState /\ poolMode_ = MODE_CACHED
          THEN threshhold ELSE threadSizeThreshHold_
    /\ UNCHANGED <<poolMode_, taskQueMaxThreshHold_>>

\* An owner whose program has the setters in another order, some of them
\* more than once or not at all: before start, any of them may come next.
OwnerChoose ==
    /\ mpc \in {"setMode", "setQue", "setThr", "start"}
    /\ mpc' \in {"setMode", "setQue", "setThr", "start"} \ {mpc}
    /\ UNCHANGED <<mi, poolVars, cfgVars, resVars, clientVars, workerVars,
                   histVars>>

\* ----------------------------------------------------------- Thread::Thread
\* Another pool of the process is started, by another thread, while this
\* pool is configured and start creates its Thread objects.
OtherPoolStarting == mpc \in {"setMode", "setQue", "setThr", "start", "create"}

\* Line 239, threadId_(generateId_++), in that other thread.  generateId_
\* is a plain static int: the increment is a read and a later write, and
\* nothing orders it with the constructors this pool runs.
OtherThreadRead ==
    /\ OtherPoolStarting
    /\ otherPc = "idle"
    /\ Len(otherIds) < OtherThreads
    /\ otherTmp' = generateId_
    /\ otherPc' = "read"
    /\ UNCHANGED <<isPoolRunning_, taskQue_, taskSize_, idleThreadSize_,
                   curThreadSize_, threads_, mtx, generateId_, otherIds>>
    /\ UNCHANGED <<cfgVars, resVars, mainVars, clientVars, workerVars,
                   histVars>>

OtherThreadWrite ==
    /\ OtherPoolStarting
    /\ otherPc = "read"
    /\ generateId_' = otherTmp + 1
    /\ otherIds' = Append(otherIds, otherTmp)
    /\ otherPc' = "idle"
    /\ UNCHANGED <<isPoolRunning_, taskQue_, taskSize_, idleThreadSize_,
                   curThreadSize_, threads_, mtx, otherTmp>>
    /\ UNCHANGED <<cfgVars, resVars, mainVars, clientVars, workerVars,
                   histVars>>

\* -------------------------------------------------------------------- start
\* Thread::Thread: the next id of the process-wide counter.
NewThreadId == generateId_

\* Lines 101-104: the flag and the initial size.
StartBegin(initThreadSize) ==
    /\ mpc = "start"
    /\ isPoolRunning_' = TRUE
    /\ initThreadSize_' = initThreadSize
    /\ mpc' = "create"
    /\ mi' = 0
    /\ UNCHANGED <<taskQue_, taskSize_, idleThreadSize_, curThreadSize_,
                   threads_, mtx, generateId_, procVars>>
    /\ UNCHANGED <<poolMode_, taskQueMaxThreshHold_, threadSizeThreshHold_>>
    /\ UNCHANGED <<resVars, clientVars, workerVars, histVars>>

\* Lines 107-116: one iteration of the loop that creates the Thread objects.
StartCreate ==
    /\ mpc = "create"
    /\ IF mi < initThreadSize_
       THEN /\ threads_' = threads_ \cup {NewThreadId}
            /\ generateId_' = generateId_ + 1
            /\ wpc' = [wpc EXCEPT ![NewThreadId] = "created"]
            /\ curThreadSize_' = curThreadSize_ + 1
            /\ mi' = mi + 1
            /\ mpc' = mpc
       ELSE /\ mi' = 0
            /\ mpc' = "launch"
            /\ UNCHANGED <<threads_, generateId_, wpc, curThreadSize_>>
    /\ UNCHANGED <<isPoolRunning_, taskQue_, taskSize_, idleThreadSize_, mtx,
                   procVars>>
    /\ UNCHANGED <<cfgVars, resVars, clientVars, wtask, histVars>>

\* Line 121: threads_[i]->start() spawns the OS thread of the entry with
\* key i.
StartLaunch ==
    /\ mpc = "launch"
    /\ IF mi < initThreadSize_
       THEN /\ mi \in threads_
            /\ wpc[mi] = "created"
            /\ wpc' = [wpc EXCEPT ![mi] = "L129"]
            /\ mpc' = "idleInc"
       ELSE /\ mpc' = "running"
            /\ UNCHANGED wpc
    /\ UNCHANGED <<mi, poolVars, cfgVars, resVars, clientVars, wtask, histVars>>

\* The process ends on a fault: none of its threads takes another step and
\* none of its objects is there any more.
ProcessCrash ==
    /\ mpc' = "crashed"
    /\ wpc' = [w \in ThreadIds |->
                 IF wpc[w] = "unborn" THEN "unborn" ELSE "killed"]
    /\ cpc' = [c \in Clients |-> "killed"]
    /\ otherPc' = "killed"
    /\ handles' = {}

\* Line 121 when the registry has no entry with key i: operator[] inserts
\* the key with a null unique_ptr, and ->start() on it is undefined
\* behaviour.  The process faults, or the call comes back having started
\* nothing and start goes on.
StartLaunchMissing(crashes) ==
    /\ mpc = "launch"
    /\ mi < initThreadSize_
    /\ mi \notin threads_
    /\ threads_' = threads_ \cup {mi}
    /\ IF crashes
       THEN ProcessCrash
       ELSE /\ mpc' = "idleInc"
            /\ UNCHANGED <<wpc, cpc, otherPc, handles>>
    /\ UNCHANGED <<isPoolRunning_, taskQue_, taskSize_, idleThreadSize_,
                   curThreadSize_, mtx, generateId_, otherTmp, otherIds>>
    /\ UNCHANGED <<cfgVars, result_, isValid_, resLimit_, any_, mi, ctask,
                   nextTask, wtask, histVars>>

\* Line 122: idleThreadSize_++ (atomic, no lock held).
StartIdleInc ==
    /\ mpc = "idleInc"
    /\ idleThreadSize_' = idleThreadSize_ + 1
    /\ mi' = mi + 1
    /\ mpc' = "launch"
    /\ UNCHANGED <<isPoolRunning_, taskQue_, taskSize_, curThreadSize_,
                   threads_, mtx, generateId_, procVars>>
    /\ UNCHANGED <<cfgVars, resVars, clientVars, workerVars, histVars>>

\* --------------------------------------------------------------- submitTask
\* A wait that lets a submitter through while the queue is at its limit.
NotFullPredInclusive == Len(taskQue_) <= taskQueMaxThreshHold_

\* Line 64: the predicate of notFull_.wait_for.
NotFullPred == Len(taskQue_) < taskQueMaxThreshHold_

\* Growth that does not look at the pool mode.
NeedNewThreadAnyMode(taskSize, idleThreadSize, curThreadSize) ==
    /\ ~UintLeq(taskSize, idleThreadSize)
    /\ curThreadSize < threadSizeThreshHold_

\* Growth that still creates a worker when the count is at the threshold.
NeedNewThreadInclusive(taskSize, idleThreadSize, curThreadSize) ==
    /\ poolMode_ = MODE_CACHED
    /\ ~UintLeq(taskSize, idleThreadSize)
    /\ curThreadSize <= threadSizeThreshHold_

\* Lines 79-81, read after taskSize_++: whether submitTask creates a thread.
NeedNewThread(taskSize, idleThreadSize, curThreadSize) ==
    /\ ~UintLeq(taskSize, idleThreadSize)
    /\ poolMode_ = MODE_CACHED
    /\ curThreadSize < threadSizeThreshHold_

\* A rejection that hands out a valid handle.
RejectedValidityTrue == TRUE

\* Line 68: the validity flag of the Result of a rejected submission.
RejectedValidity == FALSE

\* A push that wakes no waiting worker.
NotifyNobody(pcs) == pcs

\* notEmpty_.notify_all(): every worker blocked in the wait returns from it
\* and must re-acquire the mutex.
NotifyNotEmpty(pcs) ==
    [w \in ThreadIds |-> IF pcs[w] = "wait" THEN "wokeN" ELSE pcs[w]]

\* notFull_.notify_all().
NotifyNotFull(pcs) ==
    [c \in Clients |-> IF pcs[c] = "waitFull" THEN "wokeFull" ELSE pcs[c]]

\* Line 72, under the lock: the task goes to the back of the queue.
Emplace(c) ==
    /\ taskQue_' = Append(taskQue_, nextTask)
    /\ ctask' = [ctask EXCEPT ![c] = nextTask]
    /\ nextTask' = nextTask + 1
    /\ mtx' = ClientT(c)
    /\ cpc' = [cpc EXCEPT ![c] = "L73"]
    /\ UNCHANGED resVars

\* Line 68: Result(sp, false), whose constructor binds the task to it
\* (lines 260-263).
Reject(c) ==
    /\ handles' = handles \cup {nextTask}
    /\ isValid_' = [isValid_ EXCEPT ![nextTask] = RejectedValidity]
    /\ result_' = [result_ EXCEPT ![nextTask] = nextTask]
    /\ nextTask' = nextTask + 1
    /\ cpc' = [cpc EXCEPT ![c] = "idle"]
    /\ UNCHANGED <<taskQue_, ctask, mtx, resLimit_, any_>>

\* The clients blocked inside submitTask, whose task has no number yet.
Unsettled == {c \in Clients : cpc[c] \in {"waitFull", "wokeFull", "timedOut"}}

\* Lines 59-64: a client calls submitTask with a new task object, takes the
\* lock and evaluates the predicate; with the queue full it blocks in
\* wait_for, which releases the lock.
SubmitCall(c, maxTasks) ==
    /\ cpc[c] = "idle"
    /\ nextTask + Cardinality(Unsettled) <= maxTasks
    /\ mtx = NoOwner
    /\ IF NotFullPred
       THEN Emplace(c)
       ELSE /\ cpc' = [cpc EXCEPT ![c] = "waitFull"]
            /\ UNCHANGED <<taskQue_, ctask, nextTask, mtx, resVars>>
    /\ UNCHANGED <<isPoolRunning_, taskSize_, idleThreadSize_,
                   curThreadSize_, threads_, generateId_, procVars>>
    /\ UNCHANGED <<cfgVars, mainVars, workerVars, histVars>>

\* A call of submitTask made after start has returned.
SubmitEnter(c, maxTasks) == mpc = "running" /\ SubmitCall(c, maxTasks)

\* A call of submitTask made by another thread while start is in its
\* second loop (lines 119-123).
SubmitDuringStart(c, maxTasks) ==
    mpc \in {"launch", "idleInc"} /\ SubmitCall(c, maxTasks)

\* Line 63: the 1 second of wait_for elapses.
SubmitTimeout(c) ==
    /\ cpc[c] = "waitFull"
    /\ cpc' = [cpc EXCEPT ![c] = "timedOut"]
    /\ UNCHANGED <<poolVars, cfgVars, resVars, mainVars, ctask, nextTask,
                   workerVars, histVars>>

\* Lines 63-69: wait_for re-acquires the lock and evaluates the predicate
\* again; after the timeout its result is the predicate's value.
SubmitResume(c) ==
    /\ cpc[c] \in {"wokeFull", "timedOut"}
    /\ mtx = NoOwner
    /\ IF NotFullPred
       THEN Emplace(c)
       ELSE IF cpc[c] = "timedOut"
       THEN Reject(c)
       ELSE /\ cpc' = [cpc EXCEPT ![c] = "waitFull"]
            /\ UNCHANGED <<taskQue_, ctask, nextTask, mtx, resVars>>
    /\ UNCHANGED <<isPoolRunning_, taskSize_, idleThreadSize_,
                   curThreadSize_, threads_, generateId_, procVars>>
    /\ UNCHANGED <<cfgVars, mainVars, workerVars, histVars>>

\* Lines 59-72 for a task object that was submitted before: the caller
\* passes the shared_ptr of task o again, while the queue has room.
SubmitAgain(c, o, maxTasks) ==
    /\ mpc = "running"
    /\ cpc[c] = "idle"
    /\ nextTask + Cardinality(Unsettled) <= maxTasks
    /\ o < nextTask
    /\ mtx = NoOwner
    /\ NotFullPred
    /\ taskQue_' = Append(taskQue_, o)
    /\ ctask' = [ctask EXCEPT ![c] = o]
    /\ nextTask' = nextTask + 1
    /\ mtx' = ClientT(c)
    /\ cpc' = [cpc EXCEPT ![c] = "L73"]
    /\ UNCHANGED <<isPoolRunning_, taskSize_, idleThreadSize_,
                   curThreadSize_, threads_, generateId_, procVars>>
    /\ UNCHANGED <<cfgVars, resVars, mainVars, workerVars, histVars>>

\* Line 95: the Result that submitTask returns for the submission it has
\* just pushed, the latest one numbered.
NewResult == nextTask - 1

\* Lines 73-95, still under the lock: the counter, the notification, the
\* cached-mode growth, the valid Result bound to the task, the unlock.
SubmitFinish(c) ==
    LET o == ctask[c]
        h == NewResult
        grow == NeedNewThread(taskSize_ + 1, idleThreadSize_, curThreadSize_)
        woken == NotifyNotEmpty(wpc)
    IN  /\ cpc[c] = "L73"
        /\ taskSize_' = taskSize_ + 1
        /\ IF grow
           THEN /\ threads_' = threads_ \cup {NewThreadId}
                /\ generateId_' = generateId_ + 1
                /\ wpc' = [woken EXCEPT ![NewThreadId] = "L129"]
                /\ curThreadSize_' = curThreadSize_ + 1
                /\ idleThreadSize_' = idleThreadSize_ + 1
           ELSE /\ wpc' = woken
                /\ UNCHANGED <<threads_, generateId_, curThreadSize_,
                               idleThreadSize_>>
        /\ handles' = handles \cup {h}
        /\ isValid_' = [isValid_ EXCEPT ![h] = TRUE]
        /\ result_' = [result_ EXCEPT ![o] = h]
        /\ mtx' = NoOwner
        /\ cpc' = [cpc EXCEPT ![c] = "idle"]
        /\ UNCHANGED <<isPoolRunning_, taskQue_, resLimit_, any_, procVars>>
        /\ UNCHANGED <<cfgVars, mainVars, ctask, nextTask, wtask,
                       histVars>>

\* -------------------------------------------------------------- Result::get
\* A semaphore wait that passes on a count of zero.
SemReadyAtZero(h) == resLimit_[h] >= 0

\* Semaphore::wait's predicate.
SemReady(h) == resLimit_[h] > 0


\* Lines 273-282.  An invalid Result returns Any("") at once.  A valid one
\* blocks in sem_.wait() until the count is positive, takes one and moves
\* any_ out.
Get(h) ==
    /\ h \in handles \ getDone
    /\ getDone' = getDone \cup {h}
    /\ IF isValid_[h] = FALSE
       THEN /\ gotVal' = [gotVal EXCEPT ![h] = EmptyStrAny]
            /\ UNCHANGED <<resLimit_, any_>>
       ELSE /\ SemReady(h)
            /\ resLimit_' = [resLimit_ EXCEPT ![h] = @ - 1]
            /\ gotVal' = [gotVal EXCEPT ![h] = any_[h]]
            /\ any_' = [any_ EXCEPT ![h] = NoAny]
    /\ UNCHANGED <<result_, handles, isValid_>>
    /\ UNCHANGED <<poolVars, cfgVars, mainVars, clientVars, workerVars,
                   finished, discarded>>

\* ~Result (threadpool.h line 109): the caller lets a Result that
\* submitTask returned go out of scope, at once or later.  Nothing tells
\* the task: Task::result_ keeps pointing to it.
DestroyResult(h) ==
    /\ h \in handles
    /\ handles' = handles \ {h}
    /\ UNCHANGED <<result_, isValid_, resLimit_, any_>>
    /\ UNCHANGED <<poolVars, cfgVars, mainVars, clientVars, workerVars,
                   histVars>>

\* --------------------------------------------------------------- threadFunc
\* Taking the newest task instead of the oldest.
QueBack(q) == q[Len(q)]

\* Lines 181-182: std::queue is first in, first out.
QueFront(q) == Head(q)

\* A dequeue that leaves the task in the queue.
QueKeep(q) == q

QuePop(q) == Tail(q)

\* Reaping that also takes a worker of the initial ones.
ReapCondInclusive == curThreadSize_ >= initThreadSize_

\* Line 149, evaluated under the lock after a timed-out wait_for that found
\* dur.count() >= THREAD_MAX_IDLE_TIME: the worker is surplus.
ReapCond == curThreadSize_ > initThreadSize_

\* Line 129 (and line 131): the loop condition, read without the lock.
WorkerLoopTest(w) ==
    /\ wpc[w] = "L129"
    /\ wpc' = [wpc EXCEPT ![w] = IF isPoolRunning_ THEN "L135" ELSE "L204"]
    /\ UNCHANGED <<poolVars, cfgVars, resVars, mainVars, clientVars, wtask,
                   histVars>>

\* Lines 135-192, one critical section.  The worker takes the lock (line
\* 135) or already holds it after a wait (line 171 passed); with the queue
\* empty it blocks in notEmpty_ (wait_for in cached mode, wait in fixed
\* mode), which releases the lock; otherwise it takes the front task,
\* counts, notifies and unlocks (lines 178-192).
WorkerTestQueue(w) ==
    /\ \/ wpc[w] = "L135" /\ mtx = NoOwner
       \/ wpc[w] = "L137" /\ mtx = WorkerT(w)
    /\ mtx' = NoOwner
    /\ IF Len(taskQue_) = 0
       THEN /\ wpc' = [wpc EXCEPT ![w] = "wait"]
            /\ UNCHANGED <<taskQue_, taskSize_, idleThreadSize_, wtask,
                           cpc>>
       ELSE /\ idleThreadSize_' = AtomicUintDec(idleThreadSize_)
            /\ wtask' = [wtask EXCEPT ![w] = QueFront(taskQue_)]
            /\ taskQue_' = QuePop(taskQue_)
            /\ taskSize_' = AtomicUintDec(taskSize_)
            /\ wpc' = [(IF Len(taskQue_) > 1 THEN NotifyNotEmpty(wpc)
                        ELSE wpc) EXCEPT ![w] = "L194"]
            /\ cpc' = NotifyNotFull(cpc)
    /\ UNCHANGED <<isPoolRunning_, curThreadSize_, threads_, generateId_,
                   procVars>>
    /\ UNCHANGED <<cfgVars, resVars, mainVars, ctask, nextTask, histVars>>

\* Lines 144-148: the 1 second of the cached-mode wait_for elapses.  The
\* clock decides dur.count() >= THREAD_MAX_IDLE_TIME (line 148), the time
\* since the worker took lastTime (line 131): idleTooLong.  A timeout that
\* finds the worker not yet idle for that long continues exactly as a
\* return without timeout does.
WorkerTimeout(w, idleTooLong) ==
    /\ wpc[w] = "wait"
    /\ poolMode_ = MODE_CACHED
    /\ wpc' = [wpc EXCEPT ![w] = IF idleTooLong THEN "wokeX" ELSE "wokeN"]
    /\ UNCHANGED <<poolVars, cfgVars, resVars, mainVars, clientVars, wtask,
                   histVars>>

\* A condition variable may return from a wait that nobody notified.
WorkerSpuriousWakeup(w) ==
    /\ wpc[w] = "wait"
    /\ wpc' = [wpc EXCEPT ![w] = "wokeN"]
    /\ UNCHANGED <<poolVars, cfgVars, resVars, mainVars, clientVars, wtask, histVars>>

\* Lines 144-176: the wait re-acquires the lock.  After a timeout the worker
\* may reap itself (lines 148-161); then it reads isPoolRunning_ (line 171)
\* and deregisters (lines 173-175) or goes back to the queue test.  Both
\* returns release the lock.
WorkerWake(w) ==
    /\ wpc[w] \in {"wokeN", "wokeX"}
    /\ mtx = NoOwner
    /\ IF wpc[w] = "wokeX" /\ ReapCond
       THEN /\ threads_' = threads_ \ {w}
            /\ curThreadSize_' = AtomicUintDec(curThreadSize_)
            /\ idleThreadSize_' = AtomicUintDec(idleThreadSize_)
            /\ wpc' = [wpc EXCEPT ![w] = "done"]
            /\ UNCHANGED mtx
       ELSE IF isPoolRunning_ = FALSE
       THEN /\ threads_' = threads_ \ {w}
            /\ wpc' = [wpc EXCEPT ![w] = "done"]
            /\ UNCHANGED <<curThreadSize_, idleThreadSize_, mtx>>
       ELSE /\ mtx' = WorkerT(w)
            /\ wpc' = [wpc EXCEPT ![w] = "L137"]
            /\ UNCHANGED <<threads_, curThreadSize_, idleThreadSize_>>
    /\ UNCHANGED <<isPoolRunning_, taskQue_, taskSize_, generateId_,
                   procVars>>
    /\ UNCHANGED <<cfgVars, resVars, mainVars, clientVars, wtask,
                   histVars>>

\* Lines 266-270: the Result the task is bound to.
SetValTarget(o) == result_[o]

\* Lines 194-198, 216-222 and 266-270: Task::exec runs the task when a
\* Result is bound to it, and setVal stores run()'s value and posts.
WorkerExec(w) ==
    LET o == wtask[w]
        h == SetValTarget(o)
    IN  /\ wpc[w] = "L194"
        /\ wpc' = [wpc EXCEPT ![w] = "L200"]
        /\ IF o # 0 /\ result_[o] # 0
           THEN /\ finished' = finished \cup {o}
                /\ any_' = [any_ EXCEPT ![h] = RunValue(o)]
                /\ resLimit_' = [resLimit_ EXCEPT ![h] = @ + 1]
           ELSE UNCHANGED <<finished, any_, resLimit_>>
        /\ UNCHANGED <<result_, handles, isValid_>>
        /\ UNCHANGED <<poolVars, cfgVars, mainVars, clientVars, wtask,
                       discarded, getDone, gotVal>>

\* Lines 216-222 when the Result that result_ points to has been destroyed:
\* run() returns and setVal writes through the dangling pointer, which is
\* undefined behaviour.  WorkerExec is the outcome in which the write lands
\* in the memory the Result had; here the process faults.
WorkerExecFault(w) ==
    LET o == wtask[w]
    IN  /\ wpc[w] = "L194"
        /\ o # 0
        /\ result_[o] # 0
        /\ result_[o] \notin handles
        /\ finished' = finished \cup {o}
        /\ ProcessCrash
        /\ UNCHANGED <<isPoolRunning_, taskQue_, taskSize_, idleThreadSize_,
                       curThreadSize_, threads_, mtx, generateId_, otherTmp,
                       otherIds>>
        /\ UNCHANGED <<cfgVars, result_, isValid_, resLimit_, any_, mi,
                       ctask, nextTask, wtask, discarded, getDone, gotVal>>

\* Lines 200-201: idleThreadSize_++ (atomic, no lock held); the task
\* pointer goes out of scope with the iteration.
WorkerIdleInc(w) ==
    /\ wpc[w] = "L200"
    /\ idleThreadSize_' = idleThreadSize_ + 1
    /\ wtask' = [wtask EXCEPT ![w] = 0]
    /\ wpc' = [wpc EXCEPT ![w] = "L129"]
    /\ UNCHANGED <<isPoolRunning_, taskQue_, taskSize_, curThreadSize_,
                   threads_, mtx, generateId_, procVars>>
    /\ UNCHANGED <<cfgVars, resVars, mainVars, clientVars, histVars>>

\* Lines 204-205: the loop ended; the worker deregisters without the lock.
WorkerExit(w) ==
    /\ wpc[w] = "L204"
    /\ threads_' = threads_ \ {w}
    /\ wpc' = [wpc EXCEPT ![w] = "done"]
    /\ UNCHANGED <<isPoolRunning_, taskQue_, taskSize_, idleThreadSize_,
                   curThreadSize_, mtx, generateId_, procVars>>
    /\ UNCHANGED <<cfgVars, resVars, mainVars, clientVars, wtask,
                   histVars>>

\* -------------------------------------------------------------- ~ThreadPool
\* A destructor that returns while one worker is still registered.
ExitPredAllButOne == Cardinality(threads_) <= 1

\* Line 28: the predicate of exitCond_.wait.
ExitPred == Cardinality(threads_) = 0

\* The tasks in a queue.
Range(q) == {q[i] : i \in 1..Len(q)}

\* Line 23.  The owner destroys the pool when no client is inside
\* submitTask.
DtorStop ==
    /\ mpc = "running"
    /\ \A c \in Clients : cpc[c] = "idle"
    /\ isPoolRunning_' = FALSE
    /\ discarded' = Range(taskQue_)
    /\ mpc' = "D24"
    /\ UNCHANGED <<taskQue_, taskSize_, idleThreadSize_, curThreadSize_,
                   threads_, mtx, generateId_, procVars>>
    /\ UNCHANGED <<cfgVars, resVars, mi, clientVars, workerVars, finished,
                   getDone, gotVal>>

\* Line 24: notEmpty_.notify_all(), without the lock.
DtorNotify ==
    /\ mpc = "D24"
    /\ wpc' = NotifyNotEmpty(wpc)
    /\ mpc' = "D27"
    /\ UNCHANGED <<poolVars, cfgVars, resVars, mi, clientVars, wtask, histVars>>

\* Lines 27-29: the lock, then exitCond_.wait(lock, pred): with the
\* predicate true the destructor returns, otherwise it blocks in
\* exitCond_, releasing the lock.
DtorWait ==
    /\ mpc = "D27"
    /\ mtx = NoOwner
    /\ mpc' = IF ExitPred THEN "returned" ELSE "exitWait"
    /\ UNCHANGED <<poolVars, cfgVars, resVars, mi, clientVars, workerVars,
                   histVars>>

\* No statement of the program notifies exitCond_: the wait ends only by a
\* spurious wakeup, after which the predicate is evaluated again under the
\* lock.
DtorSpuriousWakeup ==
    /\ mpc = "exitWait"
    /\ mpc' = "D27"
    /\ UNCHANGED <<poolVars, cfgVars, resVars, mi, clientVars, workerVars,
                   histVars>>

\* ----------------------------------------------------------- specification
OwnerStep(initSizes) ==
    \/ \E m \in PoolMode : setMode(m)
    \/ \E n \in QueLimits : setTaskQueMaxThreshHold(n)
    \/ \E n \in Thresholds : setThreadSizeThreshHold(n)
    \/ \E k \in initSizes : StartBegin(k)
    \/ StartCreate
    \/ StartLaunch
    \/ StartIdleInc
    \/ DtorStop
    \/ DtorNotify
    \/ DtorWait

ClientStep(c, maxTasks) ==
    \/ SubmitEnter(c, maxTasks)
    \/ SubmitTimeout(c)
    \/ SubmitResume(c)
    \/ SubmitFinish(c)

WorkerStep(w) ==
    \/ WorkerLoopTest(w)
    \/ WorkerTestQueue(w)
    \/ \E idleTooLong \in BOOLEAN : WorkerTimeout(w, idleTooLong)
    \/ WorkerWake(w)
    \/ WorkerExec(w)
    \/ WorkerIdleInc(w)
    \/ WorkerExit(w)

\* Spurious wakeups.
EnvStep ==
    \/ \E w \in ThreadIds : WorkerSpuriousWakeup(w)
    \/ DtorSpuriousWakeup

\* The steps of a pool started with one of initSizes and used by clients,
\* which call submitTask maxTasks times in all.
NextOf(initSizes, clients, maxTasks) ==
    \/ OwnerStep(initSizes)
    \/ \E c \in clients : ClientStep(c, maxTasks)
    \/ \E h \in Tasks : Get(h)
    \/ \E w \in ThreadIds : WorkerStep(w)
    \/ EnvStep

Next == NextOf(InitSizes, Clients, MaxTasks)

Spec == Init /\ [][Next]_vars

\* The pool with one initial worker and one client, on which the progress
\* properties are checked.
LiveNext == NextOf(LiveInitSizes, LiveClients, LiveMaxTasks)

\* Fair scheduling: a thread that can take a step eventually takes it, a
\* thread that needs taskQueMtx_ eventually gets it (strong fairness: the
\* mutex is free again and again), a timed wait eventually times out, a
\* caller of get() on a posted semaphore eventually returns.  Nothing makes
\* a client call submitTask, the owner call a setter or destroy the pool,
\* or a condition variable wake up spuriously.
Fairness ==
    /\ WF_vars(StartCreate \/ StartLaunch \/ StartIdleInc \/ DtorNotify)
    /\ SF_vars(DtorWait)
    /\ \A c \in LiveClients :
          SF_vars(SubmitTimeout(c) \/ SubmitResume(c) \/ SubmitFinish(c))
    /\ \A w \in ThreadIds : SF_vars(WorkerStep(w))
    /\ \A h \in Tasks : WF_vars(Get(h))

FairSpec == Init /\ [][LiveNext]_vars /\ Fairness

\* The pool configured by setters called in any order.
CfgNext == LiveNext \/ OwnerChoose

CfgSpec == Init /\ [][CfgNext]_vars

\* Clients that also submit a task object a second time.
ResubmitNext ==
    \/ LiveNext
    \/ \E c \in LiveClients, o \in Tasks : SubmitAgain(c, o, LiveMaxTasks)

ResubmitSpec == Init /\ [][ResubmitNext]_vars

\* Clients that also submit while start is still starting the workers.
EarlyNext ==
    \/ LiveNext
    \/ \E c \in LiveClients : SubmitDuringStart(c, LiveMaxTasks)

EarlySpec == Init /\ [][EarlyNext]_vars

\* A process with a second pool, whose Thread objects are constructed
\* before or while this pool starts.
ProcNext ==
    \/ LiveNext
    \/ OtherThreadRead
    \/ OtherThreadWrite
    \/ \E crashes \in BOOLEAN : StartLaunchMissing(crashes)

ProcSpec == Init /\ [][ProcNext]_vars

\* Clients that destroy the Results they were given.
DropNext ==
    \/ LiveNext
    \/ \E h \in Tasks : DestroyResult(h)
    \/ \E w \in ThreadIds : WorkerExecFault(w)

DropSpec == Init /\ [][DropNext]_vars

\* The clock of the idle budget: a worker that stays in the loop of lines
\* 137-177 keeps its lastTime (line 131), so with the clock advancing one of
\* its timed-out waits finds dur.count() >= THREAD_MAX_IDLE_TIME.
IdleFairness == SF_vars(\E w \in ThreadIds : WorkerTimeout(w, TRUE))

IdleFairSpec == Init /\ [][LiveNext]_vars /\ Fairness /\ IdleFairness

\* ------------------------------------------------------------------ claims
\* Whether no worker has taken a task out of the queue yet.
NothingDequeued == finished = {} /\ \A w \in ThreadIds : wtask[w] = 0

\* Whether submitTask put task a, an already settled one, into the queue.
WasAccepted(a) == a < nextTask /\ (a \in handles => isValid_[a] = TRUE)

\* Whether start has returned.
Started == mpc \in {"running", "D24", "D27", "exitWait", "returned"}

\* C1: the queue never holds more tasks than taskQueMaxThreshHold_, and
\* whenever nobody holds taskQueMtx_ the counter taskSize_ equals the
\* queue's length.
C1_QueueBounded ==
    /\ Len(taskQue_) <= taskQueMaxThreshHold_
    /\ mtx = NoOwner => taskSize_ = Len(taskQue_)

\* A full queue, unlocked, after workers have dequeued and clients refilled.
C1_Witness ==
    /\ Len(taskQue_) = taskQueMaxThreshHold_
    /\ mtx = NoOwner
    /\ taskSize_ = taskQueMaxThreshHold_
    /\ finished # {}

\* C2: with max queue length L and no worker dequeuing, the first L
\* submissions are accepted and enqueued with valid handles and every later
\* one gets an invalid handle; a submission whose wait_for times out with
\* the queue still full returns an invalid handle and changes neither the
\* queue, the pending count, the registry nor the worker counts; get() on
\* an invalid handle returns Any("") without touching the semaphore, whose
\* count is 0.
C2_FirstL ==
    NothingDequeued =>
        \A h \in handles :
            /\ isValid_[h] = (h <= taskQueMaxThreshHold_)
            /\ isValid_[h] => h \in Range(taskQue_)

C2_RejectStep ==
    \A c \in Clients :
        (/\ cpc[c] = "timedOut"
         /\ cpc'[c] # cpc[c]
         /\ Len(taskQue_) >= taskQueMaxThreshHold_)
        => /\ cpc'[c] = "idle"
           /\ handles' = handles \cup {nextTask}
           /\ isValid_'[nextTask] = FALSE
           /\ UNCHANGED <<taskQue_, taskSize_, threads_, curThreadSize_,
                          idleThreadSize_, generateId_, wpc>>

C2_GetStep ==
    \A h \in Tasks :
        (h \in getDone' \ getDone /\ isValid_[h] = FALSE)
        => /\ resLimit_[h] = 0
           /\ gotVal'[h] = EmptyStrAny
           /\ UNCHANGED <<resLimit_, any_>>

C2_BoundedQueue == [](C2_FirstL) /\ [][C2_RejectStep /\ C2_GetStep]_vars

\* The (L+1)-th submission was rejected with nothing dequeued, and get() on
\* its handle has returned.
C2_Witness ==
    /\ NothingDequeued
    /\ Len(taskQue_) = taskQueMaxThreshHold_
    /\ \E h \in getDone : isValid_[h] = FALSE /\ gotVal[h] = EmptyStrAny

\* C3: tasks leave the queue in the order in which submitTask accepted
\* them, whichever worker dequeues: a worker that dequeues leaves no
\* earlier-accepted task behind in the queue; and in a pool that has only
\* ever had one worker, a task finishes executing only after every task
\* accepted before it has.
C3_DequeueStep ==
    \A w \in ThreadIds :
        (wpc[w] \in {"L135", "L137"} /\ wpc'[w] = "L194")
        => /\ wtask'[w] \in Range(taskQue_)
           /\ \A x \in Range(taskQue_) \ {wtask'[w]} : wtask'[w] < x
           /\ Range(taskQue_') = Range(taskQue_) \ {wtask'[w]}

C3_ExecStep ==
    \A w \in ThreadIds :
        (wpc[w] = "L194" /\ wpc'[w] = "L200" /\ generateId_ = 1)
        => \A a \in 1..(wtask[w] - 1) : WasAccepted(a) => a \in finished

C3_Fifo == [][C3_DequeueStep /\ C3_ExecStep]_vars

\* A single worker has executed every task of the behaviour.
C3_Witness ==
    /\ generateId_ = 1
    /\ Cardinality(finished) = MaxTasks

\* C4: get() on a valid handle returns the value of the run() of the task
\* the handle was created for, and only after that run() has finished; the
\* values got from different handles differ.
C4_FutureCorrect ==
    /\ \A h \in getDone :
          isValid_[h] = TRUE => gotVal[h] = RunValue(h) /\ h \in finished
    /\ \A g, h \in getDone :
          (isValid_[g] = TRUE /\ isValid_[h] = TRUE /\ g # h)
          => gotVal[g] # gotVal[h]

\* Every submission of the behaviour was accepted and its value collected.
C4_Witness ==
    /\ getDone = Tasks
    /\ \A h \in Tasks : isValid_[h] = TRUE

\* C5: under fair scheduling, while the pool runs, every task in the queue
\* is eventually dequeued and executed, and get() on every valid handle
\* eventually returns.
C5_Progress ==
    /\ \A t \in Tasks :
          (t \in Range(taskQue_)) ~> (t \in finished \/ ~isPoolRunning_)
    /\ \A h \in Tasks :
          (h \in handles /\ isValid_[h] = TRUE)
             ~> (h \in getDone \/ ~isPoolRunning_)

\* A running pool has executed a queued task and get() on its handle has
\* returned its value.
C5_Witness ==
    /\ isPoolRunning_
    /\ \E h \in getDone : isValid_[h] = TRUE /\ h \in finished

\* C6 (as claimed): once the destructor has cleared isPoolRunning_, under
\* fair scheduling every worker eventually deregisters and the destructor
\* eventually returns.
C6_TeardownCompletes ==
    (mpc = "D24") ~> (mpc = "returned" /\ threads_ = {})

\* C7: when the destructor has returned, the registry is empty and every
\* worker that was created has left threadFunc's loop.
C7_TeardownDrains ==
    mpc = "returned" =>
        /\ threads_ = {}
        /\ \A w \in ThreadIds : wpc[w] \in {"unborn", "done"}

\* The destructor has returned from a pool whose workers executed tasks.
C7_Witness ==
    /\ mpc = "returned"
    /\ generateId_ >= 2
    /\ finished # {}

\* C8 (as claimed): a task that was in the queue when the destructor
\* cleared isPoolRunning_ is never dequeued or executed, and get() on its
\* handle never returns.
C8_DiscardedNeverRun ==
    \A t \in discarded :
        /\ \A w \in ThreadIds : wtask[w] # t
        /\ t \notin finished
        /\ t \notin getDone

\* C9: in fixed mode, once start(K) has returned, curThreadSize_ is K, no
\* Thread beyond the K of start has been created, and while the pool runs
\* the registry holds exactly those K workers.
C9_FixedCount ==
    (poolMode_ = MODE_FIXED /\ Started) =>
        /\ curThreadSize_ = initThreadSize_
        /\ generateId_ = initThreadSize_
        /\ isPoolRunning_ => threads_ = 0..(initThreadSize_ - 1)

\* A running fixed pool that has executed every task of the behaviour.
C9_Witness ==
    /\ poolMode_ = MODE_FIXED
    /\ isPoolRunning_
    /\ mpc = "running"
    /\ Cardinality(finished) = MaxTasks

\* C10: in cached mode an accepted submitTask creates exactly one worker
\* when, after the push, taskSize_ > idleThreadSize_ and curThreadSize_ is
\* below the threshold, and none otherwise; with threshold T above the
\* initial count, curThreadSize_ and the registry never exceed T.
C10_SubmitStep ==
    \A c \in Clients :
        (cpc[c] = "L73" /\ cpc'[c] = "idle" /\ poolMode_ = MODE_CACHED)
        => IF taskSize_' > idleThreadSize_
              /\ curThreadSize_ < threadSizeThreshHold_
           THEN /\ curThreadSize_' = curThreadSize_ + 1
                /\ generateId_' = generateId_ + 1
                /\ Cardinality(threads_') = Cardinality(threads_) + 1
           ELSE UNCHANGED <<curThreadSize_, generateId_, threads_>>

C10_AtMostT ==
    (poolMode_ = MODE_CACHED /\ Started
        /\ threadSizeThreshHold_ > initThreadSize_)
    => /\ curThreadSize_ <= threadSizeThreshHold_
       /\ Cardinality(threads_) <= threadSizeThreshHold_

C10_CachedGrowth == [](C10_AtMostT) /\ [][C10_SubmitStep]_vars

\* The pool has grown to T and holds a backlog above its idle workers.
C10_Witness ==
    /\ poolMode_ = MODE_CACHED
    /\ threadSizeThreshHold_ > initThreadSize_
    /\ curThreadSize_ = threadSizeThreshHold_
    /\ mtx = NoOwner
    /\ taskSize_ > idleThreadSize_

\* C11: in cached mode, once start has returned, reaping never takes
\* curThreadSize_ below the initial count K, and when no further task is
\* submitted curThreadSize_ eventually is K and stays K for as long as the
\* pool runs.
C11_NeverBelowK ==
    (poolMode_ = MODE_CACHED /\ Started) => curThreadSize_ >= initThreadSize_

C11_CachedShrink ==
    /\ [](C11_NeverBelowK)
    /\ <>[]((poolMode_ = MODE_CACHED /\ Started /\ isPoolRunning_)
                => curThreadSize_ = initThreadSize_)

\* A running cached pool is back at K after a surplus worker reaped itself.
C11_Witness ==
    /\ poolMode_ = MODE_CACHED
    /\ isPoolRunning_
    /\ mpc = "running"
    /\ curThreadSize_ = initThreadSize_
    /\ generateId_ > initThreadSize_
    /\ \E w \in ThreadIds : wpc[w] = "done"

\* C12 (as claimed): each setter called before start sets its field to the
\* given value, in whatever order the setters are called.
C12_EverySetterSets ==
    [][~isPoolRunning_ =>
         /\ \A m \in PoolMode : setMode(m) => poolMode_' = m
         /\ \A n \in QueLimits :
               setTaskQueMaxThreshHold(n) => taskQueMaxThreshHold_' = n
         /\ \A n \in Thresholds :
               setThreadSizeThreshHold(n) => threadSizeThreshHold_' = n]_vars

\* C12 (amended): before start, in whatever order the setters are called,
\* setMode and setTaskQueMaxThreshHold set their field to the given value
\* and setThreadSizeThreshHold sets the worker threshold to the given value
\* when the mode is MODE_CACHED at that call and leaves it otherwise; from
\* start on, no setter changes mode, max queue length or worker threshold.
C12_BeforeStart ==
    ~isPoolRunning_ =>
        /\ \A m \in PoolMode : setMode(m) => poolMode_' = m
        /\ \A n \in QueLimits :
              setTaskQueMaxThreshHold(n) => taskQueMaxThreshHold_' = n
        /\ \A n \in Thresholds :
              setThreadSizeThreshHold(n) =>
                  threadSizeThreshHold_' =
                      IF poolMode_ = MODE_CACHED THEN n
                      ELSE threadSizeThreshHold_

C12_AfterStart ==
    Started =>
        UNCHANGED <<poolMode_, taskQueMaxThreshHold_, threadSizeThreshHold_>>

C12_Setters == [][C12_BeforeStart /\ C12_AfterStart]_vars

\* A pool started in cached mode whose threshold setter came before
\* setMode(MODE_CACHED), and whose max queue length was set.
C12_Witness ==
    /\ mpc = "running"
    /\ poolMode_ = MODE_CACHED
    /\ threadSizeThreshHold_ = THREAD_MAX_THRESHHOLD
    /\ taskQueMaxThreshHold_ \in QueLimits
    /\ handles # {}

\* The calls of setVal made on handle h so far: every call posts the
\* semaphore once, and only a get() of a valid handle takes a post away.
SetValCalls(h) ==
    resLimit_[h] + (IF h \in getDone /\ isValid_[h] = TRUE THEN 1 ELSE 0)

\* C13 (as claimed): setVal is called at most once on every handle that
\* submitTask returned, also when a task object is submitted more than
\* once, and a get() that returned from a valid handle returned the value
\* of that one call.
C13_SetValOnce ==
    \A h \in handles :
        /\ SetValCalls(h) <= 1
        /\ (h \in getDone /\ isValid_[h] = TRUE) => gotVal[h] # NoAny

\* C14 (as claimed): whenever taskQueMtx_ is free, the registry has
\* curThreadSize_ entries.
C14_RegistryMatchesCount ==
    mtx = NoOwner => Cardinality(threads_) = curThreadSize_

\* C15 (as claimed): in every reachable state idleThreadSize_ is at most
\* curThreadSize_, also when tasks are submitted while start is running;
\* the unsigned idle counter never wraps below zero.
C15_IdleAtMostCurrent == UintLeq(idleThreadSize_, curThreadSize_)

\* C16 (as claimed): whatever generateId_ is when start(K) is called, start
\* returns, and when it does the registry holds exactly the K workers it
\* created, each of them started, and curThreadSize_ and idleThreadSize_
\* are both K.
C16_ReturnStep ==
    (mpc = "launch" /\ mpc' = "running")
    => /\ Cardinality(threads_') = initThreadSize_
       /\ \A w \in threads_' : wpc'[w] \notin {"unborn", "created"}
       /\ \A w \in ThreadIds : wpc'[w] # "created"
       /\ curThreadSize_' = initThreadSize_
       /\ idleThreadSize_' = initThreadSize_

C16_StartExact == [](mpc # "crashed") /\ [][C16_ReturnStep]_vars

\* The ids of the Thread objects this pool has constructed.
OwnIds == {w \in ThreadIds : wpc[w] # "unborn"}

\* C18 (as claimed): no id is handed out twice, whichever pool and thread
\* constructs the Thread.
C18_UniqueIds ==
    /\ \A i, j \in 1..Len(otherIds) : i # j => otherIds[i] # otherIds[j]
    /\ \A i \in 1..Len(otherIds) : otherIds[i] \notin OwnIds

\* C17 (as claimed): a thread that is at a statement reading or writing
\* the queue, a counter or the registry holds taskQueMtx_: the owner in
\* start's loops (lines 114-115 and 122), a worker at idleThreadSize_++
\* (line 200) and at its last threads_.erase (line 204).
C17_AllUnderLock ==
    /\ mpc \in {"create", "idleInc"} => mtx = OwnerT
    /\ \A w \in ThreadIds : wpc[w] \in {"L200", "L204"} => mtx = WorkerT(w)

\* C19 (as claimed): when a worker's exec delivers through Task::result_,
\* the Result it points to still exists, however the callers destroy the
\* Results they were given.
C19_DeliveryStep ==
    \A w \in ThreadIds :
        (/\ wpc[w] = "L194"
         /\ wpc'[w] # "L194"
         /\ wtask[w] # 0
         /\ result_[wtask[w]] # 0)
        => result_[wtask[w]] \in handles

C19_NoDanglingDelivery == [][C19_DeliveryStep]_vars

\* C20: every accepted submission is dequeued by at most one worker and
\* run at most once: the queue holds no task twice, no two workers hold the
\* same task, a task that a worker holds or has run is not in the queue,
\* and a worker neither dequeues nor runs a task whose run() has returned.
C20_NoSharedEntry ==
    /\ \A i, j \in 1..Len(taskQue_) : i # j => taskQue_[i] # taskQue_[j]
    /\ \A v, w \in ThreadIds :
          (v # w /\ wtask[v] # 0) => wtask[v] # wtask[w]
    /\ \A w \in ThreadIds : wtask[w] # 0 => wtask[w] \notin Range(taskQue_)
    /\ \A t \in finished : t \notin Range(taskQue_)

C20_TakeStep ==
    \A w \in ThreadIds :
        /\ (wtask[w] = 0 /\ wtask'[w] # 0) => wtask'[w] \notin finished
        /\ (wpc[w] = "L194" /\ wpc'[w] = "L200") => wtask[w] \notin finished

C20_AtMostOnce == [](C20_NoSharedEntry) /\ [][C20_TakeStep]_vars

\* Two workers hold the tasks they dequeued at the same time, after an
\* earlier task has been run.
C20_Witness ==
    \E v, w \in ThreadIds :
        /\ v # w
        /\ wpc[v] = "L194"
        /\ wpc[w] = "L194"
        /\ finished # {}

====
